---------------------------- MODULE Spec2Model ----------------------------
(***************************************************************************)
(* The binomial model (BinomialModelSmart) and the valuation engines built *)
(* on it (EuropeanOption, AmericanOption, KnockOutOption).                 *)
(*                                                                         *)
(* Numbers are exact rationals <<numerator, denominator>> in lowest terms  *)
(* with a positive denominator; the three non-finite values of the floats  *)
(* of the source are <<0,0>> (nan), <<1,0>> (+inf) and <<-1,0>> (-inf).    *)
(* Arrays are functions over 0..len-1, as the source indexes them.         *)
(***************************************************************************)
EXTENDS Integers, Sequences, FiniteSets, TLC

VARIABLES underlyingModel, call, ret, raised, randomState, monteCarloModels, cliquetOption

vars == <<underlyingModel, call, ret, raised, randomState, monteCarloModels, cliquetOption>>

\* the objects that a client of the lattice and of its engines does not have
otherObjects == <<randomState, monteCarloModels, cliquetOption>>
noObject == <<>>

(***************************************************************************)
(* Bounds of the model.                                                    *)
(***************************************************************************)
MaxNumberOfTimes == 4
MaxStrike == 2
MaxInitialValue == 2

(***************************************************************************)
(* Float arithmetic, carried out exactly.                                  *)
(***************************************************************************)
Abs(n) == IF n < 0 THEN -n ELSE n

RECURSIVE GCD(_, _)
GCD(a, b) == IF b = 0 THEN a ELSE GCD(b, a % b)

Sign(n) == IF n < 0 THEN -1 ELSE IF n = 0 THEN 0 ELSE 1

nan == <<0, 0>>
inf == <<1, 0>>
minusInf == <<-1, 0>>

Rat(n, d) ==
    IF d = 0 THEN <<Sign(n), 0>>
    ELSE LET g == GCD(Abs(n), Abs(d))
             s == IF d < 0 THEN -1 ELSE 1
         IN  <<(s * n) \div g, (s * d) \div g>>

Zero == <<0, 1>>
One == <<1, 1>>

isfinite(x) == x[2] # 0

\* the denominators are brought to their least common multiple and the
\* factors are cancelled before they are multiplied, to keep the integers small
add(x, y) == IF isfinite(x) /\ isfinite(y)
             THEN LET g == GCD(x[2], y[2])
                  IN  Rat(x[1] * (y[2] \div g) + y[1] * (x[2] \div g), (x[2] \div g) * y[2])
             ELSE nan
neg(x) == <<-x[1], x[2]>>
sub(x, y) == add(x, neg(y))
mul(x, y) == IF isfinite(x) /\ isfinite(y)
             THEN LET g == GCD(Abs(x[1]), y[2])
                      h == GCD(Abs(y[1]), x[2])
                  IN  Rat((x[1] \div g) * (y[1] \div h), (x[2] \div h) * (y[2] \div g))
             ELSE nan
\* x / y of floats and of numpy arrays: 0/0 is nan, x/0 is +inf or -inf
div(x, y) == IF isfinite(x) /\ isfinite(y)
             THEN IF y[1] = 0 THEN <<Sign(x[1]), 0>>
                  ELSE mul(x, <<Sign(y[1]) * y[2], Abs(y[1])>>)
             ELSE nan

\* x < y of floats: false as soon as one side is nan
lt(x, y) == /\ x # nan
            /\ y # nan
            /\ IF isfinite(x) /\ isfinite(y)
               THEN LET g == GCD(x[2], y[2])
                    IN  x[1] * (y[2] \div g) < y[1] * (x[2] \div g)
               ELSE IF isfinite(x) \/ isfinite(y)
               THEN x[1] * y[2] < y[1] * x[2]
               ELSE x[1] < y[1]
gt(x, y) == lt(y, x)
le(x, y) == lt(x, y) \/ (x = y /\ x # nan)
ge(x, y) == le(y, x)

\* max(a, b) of Python and np.maximum, on finite values
maximum(x, y) == IF gt(y, x) THEN y ELSE x

RECURSIVE pow(_, _)
pow(x, n) == IF n = 0 THEN One
             ELSE IF n < 0 THEN div(One, pow(x, -n))
             ELSE mul(x, pow(x, n - 1))

\* x[a:b] of an array
slice(x, a, b) == [i \in 0..(b - a - 1) |-> x[a + i]]

len(x) == Cardinality(DOMAIN x)

RECURSIVE sumUpTo(_, _)
sumUpTo(x, n) == IF n < 0 THEN Zero ELSE add(sumUpTo(x, n - 1), x[n])

\* sum(x) of a list
sum(x) == sumUpTo(x, len(x) - 1)

\* np.dot(x, y) of two vectors of the same length
dot(x, y) == sum([i \in DOMAIN x |-> mul(x[i], y[i])])

\* c * x of a float and an array
scale(c, x) == [i \in DOMAIN x |-> mul(c, x[i])]

\* np.full((n, m), math.nan)
full(n, m) == [i \in 0..(n - 1) |-> [j \in 0..(m - 1) |-> nan]]

\* the tuples (a, b) and (a, b, c, d) that a method returns
pair(a, b) == [i \in 0..1 |-> IF i = 0 THEN a ELSE b]
quadruple(a, b, c, d) ==
    [i \in 0..3 |-> IF i = 0 THEN a ELSE IF i = 1 THEN b ELSE IF i = 2 THEN c ELSE d]

RECURSIVE binom(_, _)
binom(n, k) == IF k = 0 \/ k = n THEN 1
               ELSE binom(n - 1, k - 1) + binom(n - 1, k)


(***************************************************************************)
(* BinomialModelSmart                                                      *)
(***************************************************************************)
InitialValues == {Rat(n, 1) : n \in 1..MaxInitialValue}
DownFactors == {Rat(1, 2), Rat(3, 4)}
UpFactors == {Rat(2, 1), Rat(3, 2)}
InterestRates == {Rat(0, 1), Rat(1, 4), Rat(-1, 4)}

\* the attribute q = (1 + rho - d)/(u - d)
riskNeutralProbability(decreaseIfDown, increaseIfUp, interestRate) ==
    div(sub(add(One, interestRate), decreaseIfDown), sub(increaseIfUp, decreaseIfDown))

\* mutant: the orderings are tested strictly the other way, d > 1 + rho and
\* u < 1 + rho
invalidParametersOnlyBeyond(decreaseIfDown, increaseIfUp, numberOfTimes, interestRate) ==
    \/ gt(decreaseIfDown, add(One, interestRate))
    \/ lt(increaseIfUp, add(One, interestRate))
    \/ numberOfTimes < 1

\* the parameter sets that the constructor of BinomialModel rejects with
\* InvalidParameters: d >= 1 + rho, u <= 1 + rho or fewer than one time
invalidParameters(decreaseIfDown, increaseIfUp, numberOfTimes, interestRate) ==
    \/ ge(decreaseIfDown, add(One, interestRate))
    \/ le(increaseIfUp, add(One, interestRate))
    \/ numberOfTimes < 1

\* mutant: the entries after the first are the previous ones times u
realizationsAtTimeAllUp(k, realizations, decreaseIfDown, increaseIfUp) ==
    LET realizationsAtCurrentTime ==
            [j \in 0..(k - 1) |-> mul(increaseIfUp, realizations[k - 1][j])]
    IN  [j \in DOMAIN realizations[k] |->
            IF j = 0 THEN mul(increaseIfUp, realizations[k - 1][0])
            ELSE IF j <= k THEN realizationsAtCurrentTime[j - 1]
            ELSE realizations[k][j]]

\* row k of the matrix, written by iteration k of the loop of generateRealizations
realizationsAtTime(k, realizations, decreaseIfDown, increaseIfUp) ==
    LET realizationsAtCurrentTime ==
            [j \in 0..(k - 1) |-> mul(decreaseIfDown, realizations[k - 1][j])]
    IN  [j \in DOMAIN realizations[k] |->
            IF j = 0 THEN mul(increaseIfUp, realizations[k - 1][0])
            ELSE IF j <= k THEN realizationsAtCurrentTime[j - 1]
            ELSE realizations[k][j]]

\* the matrix after the iterations 1..k of the loop of generateRealizations
RECURSIVE realizationsAfter(_, _, _, _, _)
realizationsAfter(k, initialValue, decreaseIfDown, increaseIfUp, numberOfTimes) ==
    IF k = 0
    THEN [full(numberOfTimes, numberOfTimes) EXCEPT ![0][0] = initialValue]
    ELSE LET realizations == realizationsAfter(k - 1, initialValue, decreaseIfDown,
                                               increaseIfUp, numberOfTimes)
         IN  [realizations EXCEPT
                 ![k] = realizationsAtTime(k, realizations, decreaseIfDown, increaseIfUp)]

generateRealizations(initialValue, decreaseIfDown, increaseIfUp, numberOfTimes) ==
    realizationsAfter(numberOfTimes - 1, initialValue, decreaseIfDown, increaseIfUp,
                      numberOfTimes)

BinomialModelSmart(initialValue, decreaseIfDown, increaseIfUp, numberOfTimes, interestRate) ==
    [initialValue |-> initialValue,
     decreaseIfDown |-> decreaseIfDown,
     increaseIfUp |-> increaseIfUp,
     numberOfTimes |-> numberOfTimes,
     interestRate |-> interestRate,
     riskNeutralProbabilityUp |->
         riskNeutralProbability(decreaseIfDown, increaseIfUp, interestRate),
     realizations |->
         generateRealizations(initialValue, decreaseIfDown, increaseIfUp, numberOfTimes)]

\* i as an index into an axis of length n: a negative index counts from the end
wrapped(i, n) == IF i < 0 THEN n + i ELSE i

\* self.realizations[timeIndex, 0:timeIndex + 1], for a row index that the
\* matrix has, -numberOfTimes <= timeIndex < numberOfTimes
getRealizationsAtGivenTime(self, timeIndex) ==
    slice(self.realizations[wrapped(timeIndex, self.numberOfTimes)],
          0, wrapped(timeIndex + 1, self.numberOfTimes))

\* mutant: the binomial coefficient is left out
getProbabilitiesWithoutBinom(self, timeIndex) ==
    IF timeIndex = 0
    THEN One
    ELSE LET q == self.riskNeutralProbabilityUp
         IN  [numberOfDowns \in 0..timeIndex |->
                 mul(pow(q, timeIndex - numberOfDowns), pow(sub(One, q), numberOfDowns))]

\* the scalar 1.0 at time 0, a list of timeIndex + 1 probabilities otherwise
getProbabilitiesOfRealizationsAtGivenTime(self, timeIndex) ==
    IF timeIndex = 0
    THEN One
    ELSE LET q == self.riskNeutralProbabilityUp
         IN  [numberOfDowns \in 0..timeIndex |->
                 mul(mul(Rat(binom(timeIndex, numberOfDowns), 1),
                         pow(q, timeIndex - numberOfDowns)),
                     pow(sub(One, q), numberOfDowns))]

\* mutant: the weighted sum is compounded instead of discounted
getDiscountedAverageCompounded(self, timeIndex) ==
    IF timeIndex = 0
    THEN self.initialValue
    ELSE LET realizations == getRealizationsAtGivenTime(self, timeIndex)
             probabilities == getProbabilitiesOfRealizationsAtGivenTime(self, timeIndex)
         IN  mul(pow(add(One, self.interestRate), timeIndex),
                 dot(probabilities, realizations))

getDiscountedAverageAtGivenTime(self, timeIndex) ==
    IF timeIndex = 0
    THEN self.initialValue
    ELSE LET realizations == getRealizationsAtGivenTime(self, timeIndex)
             probabilities == getProbabilitiesOfRealizationsAtGivenTime(self, timeIndex)
         IN  mul(pow(add(One, self.interestRate), -timeIndex),
                 dot(probabilities, realizations))

\* mutant: math.floor instead of math.ceil, the largest k >= from with base^k <= x
RECURSIVE floorLog(_, _, _)
floorLog(x, base, from) ==
    IF gt(pow(base, from + 1), x) THEN from ELSE floorLog(x, base, from + 1)

\* math.ceil(math.log(x, base)) for x >= 1 and base > 1: the smallest k >= from
\* with base^k >= x
RECURSIVE ceilLog(_, _, _)
ceilLog(x, base, from) ==
    IF ge(pow(base, from), x) THEN from ELSE ceilLog(x, base, from + 1)

\* the int that math.ceil returns, as a number
findThreshold(self, timeIndex) ==
    LET rho == self.interestRate
        u == self.increaseIfUp
        d == self.decreaseIfDown
    IN  Rat(ceilLog(pow(div(add(One, rho), d), timeIndex), div(u, d), 0), 1)

getPercentageOfGainAtGivenTime(self, timeIndex) ==
    IF timeIndex = 0
    THEN Rat(100, 1)
    ELSE LET probabilities == getProbabilitiesOfRealizationsAtGivenTime(self, timeIndex)
             threshold == findThreshold(self, timeIndex)[1]
         IN  mul(Rat(100, 1), sum(slice(probabilities, 0, timeIndex - threshold + 1)))

(***************************************************************************)
(* BinomialModelMonteCarlo                                                 *)
(***************************************************************************)
\* the matrices that getUpsAndDowns can return: entry u where the uniform draw
\* in [0, 1) is below q, entry d where it is not
getUpsAndDowns(decreaseIfDown, increaseIfUp, q, numberOfTimes, numberOfSimulations) ==
    [0..(numberOfTimes - 1) ->
        [0..(numberOfSimulations - 1) ->
            {x \in {increaseIfUp, decreaseIfDown} :
                \/ x = increaseIfUp /\ gt(q, Zero)
                \/ x = decreaseIfDown /\ lt(q, One)}]]

\* mutant: every row is the initial row times the draws of its time
simulatedRealizationsFromInitial(timeIndex, initialValue, numberOfTimes, numberOfSimulations, upsAndDowns) ==
    [t \in 0..(numberOfTimes - 1) |->
        [i \in 0..(numberOfSimulations - 1) |->
            IF t = 0 THEN initialValue
            ELSE IF t <= timeIndex THEN mul(initialValue, upsAndDowns[t - 1][i])
            ELSE nan]]

\* the matrix after the iterations 1..timeIndex of the loop of generateRealizations
RECURSIVE simulatedRealizationsAfter(_, _, _, _, _)
simulatedRealizationsAfter(timeIndex, initialValue, numberOfTimes, numberOfSimulations, upsAndDowns) ==
    IF timeIndex = 0
    THEN [full(numberOfTimes, numberOfSimulations) EXCEPT
             ![0] = [i \in 0..(numberOfSimulations - 1) |-> initialValue]]
    ELSE LET realizations ==
                 simulatedRealizationsAfter(timeIndex - 1, initialValue, numberOfTimes,
                                            numberOfSimulations, upsAndDowns)
         IN  [realizations EXCEPT
                 ![timeIndex] = [i \in 0..(numberOfSimulations - 1) |->
                                    mul(realizations[timeIndex - 1][i],
                                        upsAndDowns[timeIndex - 1][i])]]

generateSimulatedRealizations(initialValue, numberOfTimes, numberOfSimulations, upsAndDowns) ==
    simulatedRealizationsAfter(numberOfTimes - 1, initialValue, numberOfTimes,
                               numberOfSimulations, upsAndDowns)

(***************************************************************************)
(* Payoff functions handed to the engines: lambda x: max(x - K, 0),        *)
(* lambda x: max(K - x, 0) and the short call lambda x: -max(x - K, 0).    *)
(***************************************************************************)
PayoffKinds == {"call", "put", "shortcall"}
Strikes == {Rat(n, 1) : n \in 0..MaxStrike}

payoffFunction(payoff, x) ==
    CASE payoff.kind = "call" -> maximum(sub(x, payoff.strike), Zero)
      [] payoff.kind = "put" -> maximum(sub(payoff.strike, x), Zero)
      [] payoff.kind = "shortcall" -> neg(maximum(sub(x, payoff.strike), Zero))

(***************************************************************************)
(* EuropeanOption                                                          *)
(***************************************************************************)
\* [payoffFunction(x) for x in processRealizations]
payoffRealizationsAt(self, payoff, timeIndex) ==
    LET processRealizations == getRealizationsAtGivenTime(self, timeIndex)
    IN  [i \in DOMAIN processRealizations |-> payoffFunction(payoff, processRealizations[i])]

\* np.dot(probabilities, payoffRealizations): at maturity 0 probabilities is
\* the scalar 1.0 and the product is the one-element array of the payoffs.
evaluatePayoff(self, payoff, maturity) ==
    LET payoffRealizations == payoffRealizationsAt(self, payoff, maturity)
        probabilities == getProbabilitiesOfRealizationsAtGivenTime(self, maturity)
    IN  IF maturity = 0
        THEN scale(probabilities, payoffRealizations)
        ELSE dot(probabilities, payoffRealizations)

evaluateDiscountedPayoff(self, payoff, maturity) ==
    LET discount == pow(add(One, self.interestRate), -maturity)
        average == evaluatePayoff(self, payoff, maturity)
    IN  IF maturity = 0 THEN scale(discount, average) ELSE mul(discount, average)

\* the entries 0..timeIndexBackward of row timeIndexBackward, written by one
\* iteration of the backward loop
valuesPortfolioAtTime(timeIndexBackward, valuesPortfolio, q) ==
    [j \in 0..timeIndexBackward |->
        add(mul(q, valuesPortfolio[timeIndexBackward + 1][j]),
            mul(sub(One, q), valuesPortfolio[timeIndexBackward + 1][j + 1]))]

\* matrix[timeIndexBackward, 0:timeIndexBackward + 1] = values
setRow(matrix, timeIndexBackward, values) ==
    [matrix EXCEPT ![timeIndexBackward] =
        [j \in DOMAIN matrix[timeIndexBackward] |->
            IF j <= timeIndexBackward THEN values[j] ELSE matrix[timeIndexBackward][j]]]

\* the matrix once the backward loop has run from maturity - 1 down to
\* timeIndexBackward
RECURSIVE valuesPortfolioFrom(_, _, _, _)
valuesPortfolioFrom(timeIndexBackward, self, payoff, maturity) ==
    IF timeIndexBackward = maturity
    THEN [full(maturity + 1, maturity + 1) EXCEPT
             ![maturity] = payoffRealizationsAt(self, payoff, maturity)]
    ELSE LET valuesPortfolio ==
                 valuesPortfolioFrom(timeIndexBackward + 1, self, payoff, maturity)
         IN  setRow(valuesPortfolio, timeIndexBackward,
                    valuesPortfolioAtTime(timeIndexBackward, valuesPortfolio,
                                          self.riskNeutralProbabilityUp))

getValuesPortfolioBackward(self, payoff, maturity) ==
    valuesPortfolioFrom(0, self, payoff, maturity)

\* mutant: the division by 1 + rho is left out
discountedValuesPortfolioNotDiscounted(timeIndexBackward, discountedValuesPortfolio, q, rho) ==
    [j \in 0..timeIndexBackward |->
        add(mul(q, discountedValuesPortfolio[timeIndexBackward + 1][j]),
            mul(sub(One, q), discountedValuesPortfolio[timeIndexBackward + 1][j + 1]))]

discountedValuesPortfolioAtTime(timeIndexBackward, discountedValuesPortfolio, q, rho) ==
    [j \in 0..timeIndexBackward |->
        div(add(mul(q, discountedValuesPortfolio[timeIndexBackward + 1][j]),
                mul(sub(One, q), discountedValuesPortfolio[timeIndexBackward + 1][j + 1])),
            add(One, rho))]

RECURSIVE discountedValuesPortfolioFrom(_, _, _, _)
discountedValuesPortfolioFrom(timeIndexBackward, self, payoff, maturity) ==
    IF timeIndexBackward = maturity
    THEN [full(maturity + 1, maturity + 1) EXCEPT
             ![maturity] = payoffRealizationsAt(self, payoff, maturity)]
    ELSE LET discountedValuesPortfolio ==
                 discountedValuesPortfolioFrom(timeIndexBackward + 1, self, payoff, maturity)
         IN  setRow(discountedValuesPortfolio, timeIndexBackward,
                    discountedValuesPortfolioAtTime(timeIndexBackward,
                                                    discountedValuesPortfolio,
                                                    self.riskNeutralProbabilityUp,
                                                    self.interestRate))

getDiscountedValuesPortfolioBackward(self, payoff, maturity) ==
    discountedValuesPortfolioFrom(0, self, payoff, maturity)

getValuesPortfolioBackwardAtGivenTime(self, payoff, currentTime, maturity) ==
    LET allValuesPortfolio == getValuesPortfolioBackward(self, payoff, maturity)
    IN  slice(allValuesPortfolio[currentTime], 0, currentTime + 1)

\* mutant: the values are discounted to time 0 instead of currentTime
getValuesDiscountedToTimeZero(self, payoff, currentTime, maturity) ==
    scale(pow(add(One, self.interestRate), -maturity),
          getValuesPortfolioBackwardAtGivenTime(self, payoff, currentTime, maturity))

getValuesDiscountedPortfolioBackwardAtGivenTime(self, payoff, currentTime, maturity) ==
    LET rho == self.interestRate
    IN  scale(pow(add(One, rho), -(maturity - currentTime)),
              getValuesPortfolioBackwardAtGivenTime(self, payoff, currentTime, maturity))

getInitialValuePortfolio(self, payoff, maturity) ==
    getValuesPortfolioBackward(self, payoff, maturity)[0][0]

getInitialDiscountedValuePortfolio(self, payoff, maturity) ==
    mul(pow(add(One, self.interestRate), -maturity),
        getInitialValuePortfolio(self, payoff, maturity))

\* the row of amountInRiskyAsset written at timeIndexBackward
currentAmountInRiskyAsset(self, payoff, maturity, timeIndexBackward) ==
    LET valuesOfTheProcessAtNextTime ==
            getRealizationsAtGivenTime(self, timeIndexBackward + 1)
        valuesOfThePortfolioAtNextTime ==
            getValuesDiscountedPortfolioBackwardAtGivenTime(self, payoff,
                                                            timeIndexBackward + 1, maturity)
    IN  [j \in 0..timeIndexBackward |->
            div(sub(valuesOfThePortfolioAtNextTime[j], valuesOfThePortfolioAtNextTime[j + 1]),
                sub(valuesOfTheProcessAtNextTime[j], valuesOfTheProcessAtNextTime[j + 1]))]

\* the row of amountInRiskFreeAsset written at timeIndexBackward
currentAmountInRiskFreeAsset(self, payoff, maturity, timeIndexBackward) ==
    LET u == self.increaseIfUp
        d == self.decreaseIfDown
        rho == self.interestRate
        valuesOfThePortfolioAtNextTime ==
            getValuesDiscountedPortfolioBackwardAtGivenTime(self, payoff,
                                                            timeIndexBackward + 1, maturity)
    IN  [j \in 0..timeIndexBackward |->
            div(sub(mul(u, valuesOfThePortfolioAtNextTime[j + 1]),
                    mul(d, valuesOfThePortfolioAtNextTime[j])),
                mul(sub(u, d), pow(add(One, rho), timeIndexBackward)))]

\* every row timeIndexBackward in maturity - 1 .. 0 is written once, from values
\* that do not depend on the other rows
getStrategy(self, payoff, maturity) ==
    LET amountInRiskyAsset ==
            [k \in 0..(maturity - 1) |-> [j \in 0..(maturity - 1) |->
                IF j <= k THEN currentAmountInRiskyAsset(self, payoff, maturity, k)[j]
                ELSE nan]]
        amountInRiskFreeAsset ==
            [k \in 0..(maturity - 1) |-> [j \in 0..(maturity - 1) |->
                IF j <= k THEN currentAmountInRiskFreeAsset(self, payoff, maturity, k)[j]
                ELSE nan]]
    IN  pair(amountInRiskyAsset, amountInRiskFreeAsset)

(***************************************************************************)
(* AmericanOption                                                          *)
(***************************************************************************)
\* mutant: the weights q and 1 - q are exchanged
valuationPartOfSwapped(valuesOption, q, rho) ==
    [j \in 0..(len(valuesOption) - 2) |->
        div(add(mul(sub(One, q), valuesOption[j]), mul(q, valuesOption[j + 1])),
            add(One, rho))]

\* [(q * x + (1 - q) * y)/(1+rho) for x,y in zip(valuesOption[:-1], valuesOption[1:])]
valuationPartOf(valuesOption, q, rho) ==
    [j \in 0..(len(valuesOption) - 2) |->
        div(add(mul(q, valuesOption[j]), mul(sub(One, q), valuesOption[j + 1])),
            add(One, rho))]

\* mutant: np.minimum in place of np.maximum
minimumOf(optionPart, valuationPart) ==
    [j \in DOMAIN optionPart |->
        IF lt(valuationPart[j], optionPart[j]) THEN valuationPart[j] ELSE optionPart[j]]

\* np.maximum(optionPart, valuationPart)
maximumOf(optionPart, valuationPart) ==
    [j \in DOMAIN optionPart |-> maximum(optionPart[j], valuationPart[j])]

\* the list valuesOption once the backward loop has run from maturity - 1
\* down to timeIndexBackward
RECURSIVE valuesOptionFrom(_, _, _, _)
valuesOptionFrom(timeIndexBackward, self, payoff, maturity) ==
    IF timeIndexBackward = maturity
    THEN payoffRealizationsAt(self, payoff, maturity)
    ELSE LET valuesOption == valuesOptionFrom(timeIndexBackward + 1, self, payoff, maturity)
             optionPart == payoffRealizationsAt(self, payoff, timeIndexBackward)
             valuationPart ==
                 valuationPartOf(valuesOption, self.riskNeutralProbabilityUp,
                                 self.interestRate)
         IN  maximumOf(optionPart, valuationPart)

getValueOption(self, payoff, maturity) ==
    valuesOptionFrom(0, self, payoff, maturity)[0]

\* mutant: optionPart >= valuationPart
exerciseRegionWithTies(optionPart, valuationPart) ==
    [j \in DOMAIN optionPart |->
        IF ge(optionPart[j], valuationPart[j]) THEN One ELSE Zero]

\* optionPart > valuationPart, stored in a float matrix
exerciseRegion(optionPart, valuationPart) ==
    [j \in DOMAIN optionPart |->
        IF gt(optionPart[j], valuationPart[j]) THEN One ELSE Zero]

\* mutant: the continuation value is not discounted
valuationPartAtTimeNotDiscounted(timeIndexBackward, valuesOption, q, rho) ==
    [j \in 0..timeIndexBackward |->
        add(mul(q, valuesOption[timeIndexBackward + 1][j]),
            mul(sub(One, q), valuesOption[timeIndexBackward + 1][j + 1]))]

\* q/(1+rho) * valuesOption[t + 1, 0:t + 1] + (1-q)/(1+rho) * valuesOption[t + 1, 1:t + 2]
valuationPartAtTime(timeIndexBackward, valuesOption, q, rho) ==
    [j \in 0..timeIndexBackward |->
        add(mul(div(q, add(One, rho)), valuesOption[timeIndexBackward + 1][j]),
            mul(div(sub(One, q), add(One, rho)), valuesOption[timeIndexBackward + 1][j + 1]))]

\* the four matrices once the backward loop has run from maturity - 1 down to
\* timeIndexBackward
RECURSIVE analysisOptionFrom(_, _, _, _)
analysisOptionFrom(timeIndexBackward, self, payoff, maturity) ==
    IF timeIndexBackward = maturity
    THEN LET payoffRealizations == payoffRealizationsAt(self, payoff, maturity)
             valuesOption ==
                 [full(maturity + 1, maturity + 1) EXCEPT ![maturity] = payoffRealizations]
             valuesExercise ==
                 [full(maturity + 1, maturity + 1) EXCEPT ![maturity] = payoffRealizations]
             valuesIfWait ==
                 [full(maturity + 1, maturity + 1) EXCEPT ![maturity] = payoffRealizations]
             exercise ==
                 [full(maturity + 1, maturity + 1) EXCEPT
                     ![maturity] = [j \in 0..maturity |-> One]]
         IN  quadruple(valuesOption, valuesExercise, valuesIfWait, exercise)
    ELSE LET analysis == analysisOptionFrom(timeIndexBackward + 1, self, payoff, maturity)
             optionPart == payoffRealizationsAt(self, payoff, timeIndexBackward)
             valuationPart ==
                 valuationPartAtTime(timeIndexBackward, analysis[0],
                                     self.riskNeutralProbabilityUp, self.interestRate)
             valuesOption ==
                 setRow(analysis[0], timeIndexBackward, maximumOf(optionPart, valuationPart))
             valuesExercise == setRow(analysis[1], timeIndexBackward, optionPart)
             valuesIfWait == setRow(analysis[2], timeIndexBackward, valuationPart)
             exercise ==
                 setRow(analysis[3], timeIndexBackward,
                        exerciseRegion(optionPart, valuationPart))
         IN  quadruple(valuesOption, valuesExercise, valuesIfWait, exercise)

\* valuesOption, valuesExercise, valuesIfWait, exercise
getAnalysisOption(self, payoff, maturity) ==
    analysisOptionFrom(0, self, payoff, maturity)

(***************************************************************************)
(* KnockOutOption                                                          *)
(***************************************************************************)
Barriers == {minusInf, Rat(3, 4), Rat(3, 1), inf}

\* mutant: the two indicators are added instead of multiplied
insideBarriersSum(x, lowerBarrier, upperBarrier) ==
    add(IF lt(x, upperBarrier) THEN One ELSE Zero, IF gt(x, lowerBarrier) THEN One ELSE Zero)

\* (processRealizations < upperBarrier).astype(int) *
\* (processRealizations > lowerBarrier).astype(int)
insideBarriers(x, lowerBarrier, upperBarrier) ==
    IF lt(x, upperBarrier) /\ gt(x, lowerBarrier) THEN One ELSE Zero

\* mutant: the two barriers are exchanged in the test at maturity
knockOutPayoffRealizationsSwapped(self, payoff, maturity, lowerBarrier, upperBarrier) ==
    LET processRealizations == getRealizationsAtGivenTime(self, maturity)
    IN  [i \in DOMAIN processRealizations |->
            IF gt(processRealizations[i], upperBarrier)
               /\ lt(processRealizations[i], lowerBarrier)
            THEN payoffFunction(payoff, processRealizations[i])
            ELSE Zero]

\* [payoffFunction(x) if x > lowerBarrier and x < upperBarrier else 0
\*  for x in processRealizations]
knockOutPayoffRealizations(self, payoff, maturity, lowerBarrier, upperBarrier) ==
    LET processRealizations == getRealizationsAtGivenTime(self, maturity)
    IN  [i \in DOMAIN processRealizations |->
            IF gt(processRealizations[i], lowerBarrier)
               /\ lt(processRealizations[i], upperBarrier)
            THEN payoffFunction(payoff, processRealizations[i])
            ELSE Zero]

\* mutant: a value exactly on a barrier counts as inside
knockOutValuesAtTimeClosedBarriers(timeIndexBackward, valuesOption, processRealizations, q, lowerBarrier, upperBarrier) ==
    [j \in 0..timeIndexBackward |->
        mul(add(mul(q, valuesOption[timeIndexBackward + 1][j]),
                mul(sub(One, q), valuesOption[timeIndexBackward + 1][j + 1])),
            IF le(processRealizations[j], upperBarrier)
               /\ ge(processRealizations[j], lowerBarrier) THEN One ELSE Zero)]

\* the entries 0..timeIndexBackward of row timeIndexBackward, written by one
\* iteration of the backward loop
knockOutValuesAtTime(timeIndexBackward, valuesOption, processRealizations, q, lowerBarrier, upperBarrier) ==
    [j \in 0..timeIndexBackward |->
        mul(add(mul(q, valuesOption[timeIndexBackward + 1][j]),
                mul(sub(One, q), valuesOption[timeIndexBackward + 1][j + 1])),
            insideBarriers(processRealizations[j], lowerBarrier, upperBarrier))]

RECURSIVE knockOutValuesFrom(_, _, _, _, _, _)
knockOutValuesFrom(timeIndexBackward, self, payoff, maturity, lowerBarrier, upperBarrier) ==
    IF timeIndexBackward = maturity
    THEN [full(maturity + 1, maturity + 1) EXCEPT
             ![maturity] = knockOutPayoffRealizations(self, payoff, maturity,
                                                      lowerBarrier, upperBarrier)]
    ELSE LET valuesOption ==
                 knockOutValuesFrom(timeIndexBackward + 1, self, payoff, maturity,
                                    lowerBarrier, upperBarrier)
         IN  setRow(valuesOption, timeIndexBackward,
                    knockOutValuesAtTime(timeIndexBackward, valuesOption,
                                         getRealizationsAtGivenTime(self, timeIndexBackward),
                                         self.riskNeutralProbabilityUp,
                                         lowerBarrier, upperBarrier))

getValuesOptionBackward(self, payoff, maturity, lowerBarrier, upperBarrier) ==
    knockOutValuesFrom(0, self, payoff, maturity, lowerBarrier, upperBarrier)

\* mutant: the barriers are looked at only at maturity
getInitialValueOptionBarriersAtMaturity(self, payoff, maturity, lowerBarrier, upperBarrier) ==
    LET payoffRealizations ==
            knockOutPayoffRealizations(self, payoff, maturity, lowerBarrier, upperBarrier)
        q == self.riskNeutralProbabilityUp
    IN  sum([j \in 0..maturity |->
                mul(mul(Rat(binom(maturity, j), 1),
                        mul(pow(q, maturity - j), pow(sub(One, q), j))),
                    payoffRealizations[j])])

getInitialValueOption(self, payoff, maturity, lowerBarrier, upperBarrier) ==
    getValuesOptionBackward(self, payoff, maturity, lowerBarrier, upperBarrier)[0][0]

getInitialDiscountedValueOption(self, payoff, maturity, lowerBarrier, upperBarrier) ==
    mul(getInitialValueOption(self, payoff, maturity, lowerBarrier, upperBarrier),
        pow(add(One, self.interestRate), -maturity))

(***************************************************************************)
(* The client: it builds a lattice, wraps it in the engines and calls one  *)
(* method at a time; call is the call whose result it holds in ret, raised *)
(* the exception that the call ended with instead.                         *)
(***************************************************************************)
NumbersOfTimes == 2..MaxNumberOfTimes

\* initialValue, decreaseIfDown, increaseIfUp, numberOfTimes, interestRate of
\* americanOptionTest
AmericanOptionTestParameters == <<Rat(20, 1), Rat(9, 10), Rat(11, 10), 4, Rat(5, 100)>>

\* the parameter sets with d < 1 + rho < u
Parameters ==
    {p \in InitialValues \X DownFactors \X UpFactors \X NumbersOfTimes \X InterestRates :
        lt(p[2], add(One, p[5])) /\ lt(add(One, p[5]), p[3])}
    \cup {AmericanOptionTestParameters}

Idle == [op |-> "idle"]

Init ==
    /\ \E p \in Parameters :
          underlyingModel = BinomialModelSmart(p[1], p[2], p[3], p[4], p[5])
    /\ call = Idle
    /\ ret = nan
    /\ raised = "none"
    /\ randomState = noObject
    /\ monteCarloModels = noObject
    /\ cliquetOption = noObject

TimeIndices == 0..(underlyingModel.numberOfTimes - 1)

\* the payoffs of the client: strikes 0..MaxStrike and at the money
PayoffFunctions ==
    [kind : PayoffKinds, strike : Strikes \cup {underlyingModel.initialValue}]

\* mutant: the grid that the call returns is kept in the lattice object
CallKeepingResultInLattice(c, r) ==
    /\ call = Idle
    /\ call' = c
    /\ ret' = r
    /\ raised' = "none"
    /\ underlyingModel' = [underlyingModel EXCEPT !.realizations = r]
    /\ UNCHANGED otherObjects

\* the call c returns r: the methods write to the arrays that they allocate
\* themselves and to nothing of the lattice object
Call(c, r) ==
    /\ call = Idle
    /\ call' = c
    /\ ret' = r
    /\ raised' = "none"
    /\ UNCHANGED <<underlyingModel, otherObjects>>

\* the call c ends with the exception e and returns nothing
Raise(c, e) ==
    /\ call = Idle
    /\ call' = c
    /\ ret' = nan
    /\ raised' = e
    /\ UNCHANGED <<underlyingModel, otherObjects>>

\* the client is done with the result it holds
Return ==
    /\ call # Idle
    /\ call' = Idle
    /\ ret' = nan
    /\ raised' = "none"
    /\ UNCHANGED <<underlyingModel, otherObjects>>

\* the arguments of the constructions that the client attempts, well formed
\* and malformed
Classes == {"BinomialModelSmart", "BinomialModelMonteCarlo"}
ConstructorArguments ==
    {One} \X {Rat(1, 2), Rat(3, 4), One} \X {One, Rat(3, 2), Rat(2, 1)}
          \X (0..MaxNumberOfTimes) \X {Rat(-1, 4), Zero, Rat(1, 2)}
NumbersOfSimulations == {1}

\* the client builds one more model; ret holds the realizations of the object
\* that the constructor has built, if it has built one
Construct ==
    /\ call = Idle
    /\ \E class \in Classes, p \in ConstructorArguments,
          numberOfSimulations \in NumbersOfSimulations :
           LET c == [op |-> "__init__", class |-> class, initialValue |-> p[1],
                     decreaseIfDown |-> p[2], increaseIfUp |-> p[3],
                     numberOfTimes |-> p[4], interestRate |-> p[5]]
           IN  IF invalidParameters(p[2], p[3], p[4], p[5])
               THEN Raise(c, "InvalidParameters")
               ELSE IF class = "BinomialModelSmart"
               THEN Call(c, generateRealizations(p[1], p[2], p[3], p[4]))
               ELSE \E upsAndDowns \in
                           getUpsAndDowns(p[2], p[3], riskNeutralProbability(p[2], p[3], p[5]),
                                          p[4], numberOfSimulations) :
                       Call(c, generateSimulatedRealizations(p[1], p[4], numberOfSimulations,
                                                             upsAndDowns))

\* the time indices that a client hands over, those of the lattice and others
AnyTimeIndices ==
    (-underlyingModel.numberOfTimes - 1)..(underlyingModel.numberOfTimes + 1)

\* numpy raises IndexError for a row index outside -numberOfTimes..numberOfTimes - 1
GetRealizationsAtGivenTime ==
    /\ call = Idle
    /\ \E timeIndex \in AnyTimeIndices :
           LET c == [op |-> "getRealizationsAtGivenTime", timeIndex |-> timeIndex]
           IN  IF timeIndex >= underlyingModel.numberOfTimes
                  \/ timeIndex < -underlyingModel.numberOfTimes
               THEN Raise(c, "IndexError")
               ELSE Call(c, getRealizationsAtGivenTime(underlyingModel, timeIndex))

GetProbabilitiesOfRealizationsAtGivenTime ==
    /\ call = Idle
    /\ \E timeIndex \in TimeIndices :
           Call([op |-> "getProbabilitiesOfRealizationsAtGivenTime", timeIndex |-> timeIndex],
                getProbabilitiesOfRealizationsAtGivenTime(underlyingModel, timeIndex))

GetDiscountedAverageAtGivenTime ==
    /\ call = Idle
    /\ \E timeIndex \in TimeIndices :
           Call([op |-> "getDiscountedAverageAtGivenTime", timeIndex |-> timeIndex],
                getDiscountedAverageAtGivenTime(underlyingModel, timeIndex))

FindThreshold ==
    /\ call = Idle
    /\ \E timeIndex \in TimeIndices :
           Call([op |-> "findThreshold", timeIndex |-> timeIndex],
                findThreshold(underlyingModel, timeIndex))

GetPercentageOfGainAtGivenTime ==
    /\ call = Idle
    /\ \E timeIndex \in TimeIndices :
           Call([op |-> "getPercentageOfGainAtGivenTime", timeIndex |-> timeIndex],
                getPercentageOfGainAtGivenTime(underlyingModel, timeIndex))

EvaluateDiscountedPayoff ==
    /\ call = Idle
    /\ \E payoff \in PayoffFunctions, maturity \in TimeIndices :
           Call([op |-> "evaluateDiscountedPayoff", payoff |-> payoff, maturity |-> maturity],
                evaluateDiscountedPayoff(underlyingModel, payoff, maturity))

GetValuesPortfolioBackward ==
    /\ call = Idle
    /\ \E payoff \in PayoffFunctions, maturity \in TimeIndices :
           Call([op |-> "getValuesPortfolioBackward", payoff |-> payoff, maturity |-> maturity],
                getValuesPortfolioBackward(underlyingModel, payoff, maturity))

GetDiscountedValuesPortfolioBackward ==
    /\ call = Idle
    /\ \E payoff \in PayoffFunctions, maturity \in TimeIndices :
           Call([op |-> "getDiscountedValuesPortfolioBackward", payoff |-> payoff,
                 maturity |-> maturity],
                getDiscountedValuesPortfolioBackward(underlyingModel, payoff, maturity))

GetInitialValuePortfolio ==
    /\ call = Idle
    /\ \E payoff \in PayoffFunctions, maturity \in TimeIndices :
           Call([op |-> "getInitialValuePortfolio", payoff |-> payoff, maturity |-> maturity],
                getInitialValuePortfolio(underlyingModel, payoff, maturity))

GetStrategy ==
    /\ call = Idle
    /\ \E payoff \in PayoffFunctions, maturity \in TimeIndices :
           Call([op |-> "getStrategy", payoff |-> payoff, maturity |-> maturity],
                getStrategy(underlyingModel, payoff, maturity))

GetValueOption ==
    /\ call = Idle
    /\ \E payoff \in PayoffFunctions, maturity \in TimeIndices :
           Call([op |-> "getValueOption", payoff |-> payoff, maturity |-> maturity],
                getValueOption(underlyingModel, payoff, maturity))

GetAnalysisOption ==
    /\ call = Idle
    /\ \E payoff \in PayoffFunctions, maturity \in TimeIndices :
           Call([op |-> "getAnalysisOption", payoff |-> payoff, maturity |-> maturity],
                getAnalysisOption(underlyingModel, payoff, maturity))

GetValuesOptionBackward ==
    /\ call = Idle
    /\ \E payoff \in PayoffFunctions, maturity \in TimeIndices,
          lowerBarrier \in Barriers, upperBarrier \in Barriers :
           Call([op |-> "getValuesOptionBackward", payoff |-> payoff, maturity |-> maturity,
                 lowerBarrier |-> lowerBarrier, upperBarrier |-> upperBarrier],
                getValuesOptionBackward(underlyingModel, payoff, maturity,
                                        lowerBarrier, upperBarrier))

GetInitialDiscountedValueOption ==
    /\ call = Idle
    /\ \E payoff \in PayoffFunctions, maturity \in TimeIndices,
          lowerBarrier \in Barriers, upperBarrier \in Barriers :
           Call([op |-> "getInitialDiscountedValueOption", payoff |-> payoff,
                 maturity |-> maturity,
                 lowerBarrier |-> lowerBarrier, upperBarrier |-> upperBarrier],
                getInitialDiscountedValueOption(underlyingModel, payoff, maturity,
                                                lowerBarrier, upperBarrier))

Next ==
    \/ Construct
    \/ GetRealizationsAtGivenTime
    \/ GetProbabilitiesOfRealizationsAtGivenTime
    \/ GetDiscountedAverageAtGivenTime
    \/ FindThreshold
    \/ GetPercentageOfGainAtGivenTime
    \/ EvaluateDiscountedPayoff
    \/ GetValuesPortfolioBackward
    \/ GetDiscountedValuesPortfolioBackward
    \/ GetInitialValuePortfolio
    \/ GetStrategy
    \/ GetValueOption
    \/ GetAnalysisOption
    \/ GetValuesOptionBackward
    \/ GetInitialDiscountedValueOption
    \/ Return

Spec == Init /\ [][Next]_vars

(***************************************************************************)
(* The client of the three engines: it wraps one lattice in a European, an *)
(* American and a knock-out engine and calls their valuation methods.      *)
(***************************************************************************)
GetValuesDiscountedPortfolioBackwardAtGivenTime ==
    /\ call = Idle
    /\ \E payoff \in PayoffFunctions, maturity \in TimeIndices :
       \E currentTime \in 0..maturity :
           Call([op |-> "getValuesDiscountedPortfolioBackwardAtGivenTime", payoff |-> payoff,
                 currentTime |-> currentTime, maturity |-> maturity],
                getValuesDiscountedPortfolioBackwardAtGivenTime(underlyingModel, payoff,
                                                                currentTime, maturity))

GetInitialValueOption ==
    /\ call = Idle
    /\ \E payoff \in PayoffFunctions, maturity \in TimeIndices,
          lowerBarrier \in Barriers, upperBarrier \in Barriers :
           Call([op |-> "getInitialValueOption", payoff |-> payoff, maturity |-> maturity,
                 lowerBarrier |-> lowerBarrier, upperBarrier |-> upperBarrier],
                getInitialValueOption(underlyingModel, payoff, maturity,
                                      lowerBarrier, upperBarrier))

EngineNext ==
    \/ GetValuesDiscountedPortfolioBackwardAtGivenTime
    \/ GetStrategy
    \/ GetAnalysisOption
    \/ GetValuesOptionBackward
    \/ GetInitialValueOption
    \/ Return

EngineSpec == Init /\ [][EngineNext]_vars

(***************************************************************************)
(* Concurrent queries: every thread runs one query at a time on an engine  *)
(* built on the shared lattice, one iteration of the backward loop of the  *)
(* method per step. call holds the frame of every thread (the arguments    *)
(* and the local variables of the method it runs), ret its result.         *)
(***************************************************************************)
Threads == 1..2

ConcurrentOperations ==
    {"getDiscountedValuesPortfolioBackward", "getValueOption", "getValuesOptionBackward"}

ConcurrentParameters ==
    {AmericanOptionTestParameters}
    \cup {<<One, Rat(1, 2), Rat(2, 1), n, Rat(1, 4)>> : n \in 2..(MaxNumberOfTimes - 1)}

ConcurrentPayoffs == [kind : {"call", "put"}, strike : {underlyingModel.initialValue}]

\* lowerBarrier, upperBarrier: the defaults and a pair that knocks nodes out
ConcurrentBarriers == {<<minusInf, inf>>, <<Rat(3, 4), Rat(21, 1)>>}

NotStarted == [pc |-> "idle"]

ConcurrentInit ==
    /\ \E p \in ConcurrentParameters :
          underlyingModel = BinomialModelSmart(p[1], p[2], p[3], p[4], p[5])
    /\ call = [thread \in Threads |-> NotStarted]
    /\ ret = [thread \in Threads |-> nan]
    /\ raised = "none"
    /\ randomState = noObject
    /\ monteCarloModels = noObject
    /\ cliquetOption = noObject

\* the local variables of the method when it enters its backward loop
frameAtLoopEntry(self, op, payoff, maturity, lowerBarrier, upperBarrier) ==
    [pc |-> "loop", op |-> op, payoff |-> payoff, maturity |-> maturity,
     lowerBarrier |-> lowerBarrier, upperBarrier |-> upperBarrier,
     q |-> self.riskNeutralProbabilityUp, rho |-> self.interestRate,
     timeIndexBackward |-> maturity - 1,
     values |->
         CASE op = "getValueOption" -> payoffRealizationsAt(self, payoff, maturity)
           [] op = "getDiscountedValuesPortfolioBackward" ->
                  [full(maturity + 1, maturity + 1) EXCEPT
                      ![maturity] = payoffRealizationsAt(self, payoff, maturity)]
           [] op = "getValuesOptionBackward" ->
                  [full(maturity + 1, maturity + 1) EXCEPT
                      ![maturity] = knockOutPayoffRealizations(self, payoff, maturity,
                                                               lowerBarrier, upperBarrier)]]

\* the local variables after the iteration timeIndexBackward of the loop
frameAfterIteration(self, frame) ==
    LET timeIndexBackward == frame.timeIndexBackward
        values ==
            CASE frame.op = "getValueOption" ->
                     maximumOf(payoffRealizationsAt(self, frame.payoff, timeIndexBackward),
                               valuationPartOf(frame.values, frame.q, frame.rho))
              [] frame.op = "getDiscountedValuesPortfolioBackward" ->
                     setRow(frame.values, timeIndexBackward,
                            discountedValuesPortfolioAtTime(timeIndexBackward, frame.values,
                                                            frame.q, frame.rho))
              [] frame.op = "getValuesOptionBackward" ->
                     setRow(frame.values, timeIndexBackward,
                            knockOutValuesAtTime(timeIndexBackward, frame.values,
                                                 getRealizationsAtGivenTime(self,
                                                                            timeIndexBackward),
                                                 frame.q, frame.lowerBarrier,
                                                 frame.upperBarrier))
    IN  [frame EXCEPT !.values = values, !.timeIndexBackward = timeIndexBackward - 1]

\* the value of the return statement of the method
returnValue(frame) ==
    IF frame.op = "getValueOption" THEN frame.values[0] ELSE frame.values

\* mutant: the result is handed over through one slot that the threads share
returnedToAll(results, thread, value) == [t \in DOMAIN results |-> value]

\* the result goes to the caller of the thread
returned(results, thread, value) == [results EXCEPT ![thread] = value]

Begin(thread) ==
    /\ call[thread].pc = "idle"
    /\ \E op \in ConcurrentOperations, payoff \in ConcurrentPayoffs,
          maturity \in TimeIndices, barriers \in ConcurrentBarriers :
           /\ op # "getValuesOptionBackward" => barriers = <<minusInf, inf>>
           /\ call' = [call EXCEPT ![thread] =
                          frameAtLoopEntry(underlyingModel, op, payoff, maturity,
                                           barriers[1], barriers[2])]
    /\ UNCHANGED <<underlyingModel, ret, raised, otherObjects>>

Iterate(thread) ==
    /\ call[thread].pc = "loop"
    /\ call[thread].timeIndexBackward >= 0
    /\ call' = [call EXCEPT ![thread] = frameAfterIteration(underlyingModel, call[thread])]
    /\ UNCHANGED <<underlyingModel, ret, raised, otherObjects>>

Finish(thread) ==
    /\ call[thread].pc = "loop"
    /\ call[thread].timeIndexBackward < 0
    /\ call' = [call EXCEPT ![thread].pc = "done"]
    /\ ret' = returned(ret, thread, returnValue(call[thread]))
    /\ UNCHANGED <<underlyingModel, raised, otherObjects>>

\* the caller is done with the result
Collect(thread) ==
    /\ call[thread].pc = "done"
    /\ call' = [call EXCEPT ![thread] = NotStarted]
    /\ ret' = [ret EXCEPT ![thread] = nan]
    /\ UNCHANGED <<underlyingModel, raised, otherObjects>>

ConcurrentNext ==
    \E thread \in Threads :
        \/ Begin(thread)
        \/ Iterate(thread)
        \/ Finish(thread)
        \/ Collect(thread)

ConcurrentSpec == ConcurrentInit /\ [][ConcurrentNext]_vars

(***************************************************************************)
(* CliquetOptionForCV: one object, whose method getPayoffs a client calls  *)
(* again and again with the matrices of returns that it has generated.     *)
(***************************************************************************)
\* min(x, y) of Python
minimum(x, y) == IF lt(y, x) THEN y ELSE x

\* the state after __init__
CliquetOptionForCV(numberOfSimulations, maturity, localFloor, localCap) ==
    [numberOfSimulations |-> numberOfSimulations,
     maturity |-> maturity,
     localFloor |-> localFloor,
     localCap |-> localCap,
     nonTruncatedPayoffs |-> noObject]

getNonTruncatedPayoffSingleTrajectory(self, returns) ==
    LET truncatedReturns ==
            [k \in DOMAIN returns |->
                minimum(maximum(sub(returns[k], One), self.localFloor), self.localCap)]
    IN  sum(truncatedReturns)

\* the object after __setNonTruncatedPayoffs
setNonTruncatedPayoffs(self, returnsForAllSimulations) ==
    [self EXCEPT !.nonTruncatedPayoffs =
        [i \in DOMAIN returnsForAllSimulations |->
            getNonTruncatedPayoffSingleTrajectory(self, returnsForAllSimulations[i])]]

\* the object after getPayoffs: the attribute is set only if it is None
afterGetPayoffs(self, returnsForAllSimulations) ==
    IF self.nonTruncatedPayoffs = noObject
    THEN setNonTruncatedPayoffs(self, returnsForAllSimulations)
    ELSE self

\* the list that getPayoffs returns; with the infinite floor and cap both
\* branches of the code yield the values of self.nonTruncatedPayoffs
getPayoffs(self, returnsForAllSimulations, globalFloor, globalCap) ==
    LET nonTruncatedPayoffs ==
            afterGetPayoffs(self, returnsForAllSimulations).nonTruncatedPayoffs
    IN  IF globalFloor = minusInf /\ globalCap = inf
        THEN nonTruncatedPayoffs
        ELSE [i \in DOMAIN nonTruncatedPayoffs |->
                 minimum(maximum(nonTruncatedPayoffs[i], globalFloor), globalCap)]

\* the returns X(t_k)/X(t_(k-1)) of the matrices, below, at and above 1
Returns == {Rat(4, 5), One, Rat(6, 5), Rat(3, 2)}
NumbersOfTrajectories == 1..2
ReturnsForAllSimulations ==
    UNION {[0..(numberOfSimulations - 1) -> [0..1 -> Returns]] :
              numberOfSimulations \in NumbersOfTrajectories}
LocalFloors == {Rat(-1, 10)}
LocalCaps == {Rat(3, 10)}
GlobalFloors == {minusInf, Zero}
GlobalCaps == {inf, Rat(2, 5)}

CliquetInit ==
    /\ \E localFloor \in LocalFloors, localCap \in LocalCaps :
           cliquetOption = CliquetOptionForCV(2, One, localFloor, localCap)
    /\ underlyingModel = noObject
    /\ randomState = noObject
    /\ monteCarloModels = noObject
    /\ call = Idle
    /\ ret = nan
    /\ raised = "none"

GetPayoffs ==
    /\ call = Idle
    /\ \E returnsForAllSimulations \in ReturnsForAllSimulations,
          globalFloor \in GlobalFloors, globalCap \in GlobalCaps :
           /\ call' = [op |-> "getPayoffs",
                       returnsForAllSimulations |-> returnsForAllSimulations,
                       globalFloor |-> globalFloor, globalCap |-> globalCap]
           /\ ret' = getPayoffs(cliquetOption, returnsForAllSimulations,
                                globalFloor, globalCap)
           /\ cliquetOption' = afterGetPayoffs(cliquetOption, returnsForAllSimulations)
    /\ raised' = "none"
    /\ UNCHANGED <<underlyingModel, randomState, monteCarloModels>>

CliquetNext ==
    \/ GetPayoffs
    \/ Return

CliquetSpec == CliquetInit /\ [][CliquetNext]_vars

(***************************************************************************)
(* Seeded simulation: a process that builds BinomialModelMonteCarlo        *)
(* objects with seeds and draws random numbers elsewhere in between.       *)
(* randomState is numpy's: the stream of uniform numbers that a generator  *)
(* yields for every seed, and the number of draws made so far from the     *)
(* generator of the process, np.random. monteCarloModels are the objects   *)
(* that the process holds.                                                 *)
(***************************************************************************)
Seeds == {"1897", "2023"}
Uniforms == {Rat(1, 4), Rat(3, 4)}
MaxDrawsElsewhere == 1
SimulatedNumbersOfTimes == {3}
StreamLength == 3 + MaxDrawsElsewhere
Streams == [0..(StreamLength - 1) -> Uniforms]

\* mutant: the generator goes on where the draws of the process have stopped
RandomStateOfProcess(numpyRandom, mySeed) ==
    [stream |-> numpyRandom.streamOfSeed[mySeed], position |-> numpyRandom.drawn]

\* np.random.RandomState(mySeed): a generator of its own, at the start of the
\* stream of its seed
RandomState(numpyRandom, mySeed) ==
    [stream |-> numpyRandom.streamOfSeed[mySeed], position |-> 0]

\* generator.uniform(0, 1, size = (rows, columns))
uniform(generator, rows, columns) ==
    [t \in 0..(rows - 1) |->
        [i \in 0..(columns - 1) |-> generator.stream[generator.position + t * columns + i]]]

\* the generator after it has yielded the numbers
afterUniform(generator, rows, columns) ==
    [generator EXCEPT !.position = generator.position + rows * columns]

\* np.where(uniformlyDistributedRandomVariables < q, u, d)
upsAndDownsOf(uniformlyDistributedRandomVariables, q, increaseIfUp, decreaseIfDown) ==
    [t \in DOMAIN uniformlyDistributedRandomVariables |->
        [i \in DOMAIN uniformlyDistributedRandomVariables[t] |->
            IF lt(uniformlyDistributedRandomVariables[t][i], q)
            THEN increaseIfUp ELSE decreaseIfDown]]

\* the object that the constructor builds
BinomialModelMonteCarlo(initialValue, decreaseIfDown, increaseIfUp, numberOfTimes, numberOfSimulations, interestRate, mySeed, numpyRandom) ==
    LET randomNumberGenerator == RandomState(numpyRandom, mySeed)
        q == riskNeutralProbability(decreaseIfDown, increaseIfUp, interestRate)
        upsAndDowns ==
            upsAndDownsOf(uniform(randomNumberGenerator, numberOfTimes, numberOfSimulations),
                          q, increaseIfUp, decreaseIfDown)
    IN  [initialValue |-> initialValue,
         decreaseIfDown |-> decreaseIfDown,
         increaseIfUp |-> increaseIfUp,
         numberOfTimes |-> numberOfTimes,
         numberOfSimulations |-> numberOfSimulations,
         interestRate |-> interestRate,
         mySeed |-> mySeed,
         riskNeutralProbabilityUp |-> q,
         randomNumberGenerator |->
             afterUniform(randomNumberGenerator, numberOfTimes, numberOfSimulations),
         realizations |->
             generateSimulatedRealizations(initialValue, numberOfTimes,
                                           numberOfSimulations, upsAndDowns)]

\* the variables of the process that hold the objects
Slots == 1..2

\* initialValue, decreaseIfDown, increaseIfUp, interestRate with q = 1/3, 2/3
SimulationParameters ==
    {<<One, Rat(1, 2), Rat(2, 1), Zero>>, <<One, Rat(3, 4), Rat(3, 2), Rat(1, 4)>>}

SimulationInit ==
    /\ \E streamOfSeed \in [Seeds -> Streams] :
           randomState = [streamOfSeed |-> streamOfSeed, drawn |-> 0]
    /\ monteCarloModels = [slot \in Slots |-> noObject]
    /\ underlyingModel = noObject
    /\ cliquetOption = noObject
    /\ call = Idle
    /\ ret = nan
    /\ raised = "none"

\* myBinomialModel = BinomialModelMonteCarlo(..., mySeed)
ConstructSeeded ==
    /\ \E slot \in Slots, p \in SimulationParameters,
          numberOfTimes \in SimulatedNumbersOfTimes, mySeed \in Seeds :
           monteCarloModels' =
               [monteCarloModels EXCEPT ![slot] =
                   BinomialModelMonteCarlo(p[1], p[2], p[3], numberOfTimes, 1, p[4],
                                           mySeed, randomState)]
    /\ UNCHANGED <<randomState, underlyingModel, cliquetOption, call, ret, raised>>

\* a draw from the generator of the process, np.random.uniform()
DrawElsewhere ==
    /\ randomState.drawn < MaxDrawsElsewhere
    /\ randomState' = [randomState EXCEPT !.drawn = randomState.drawn + 1]
    /\ UNCHANGED <<monteCarloModels, underlyingModel, cliquetOption, call, ret, raised>>

SimulationNext ==
    \/ ConstructSeeded
    \/ DrawElsewhere

SimulationSpec == SimulationInit /\ [][SimulationNext]_vars

(***************************************************************************)
(* Sessions: a client makes one valuation query after the other on the     *)
(* three engines of one lattice and writes into the arrays that the        *)
(* queries have returned to it.                                            *)
(***************************************************************************)
EuropeanQueries ==
    {"getValuesPortfolioBackward", "getDiscountedValuesPortfolioBackward",
     "getInitialValuePortfolio", "getStrategy"}
AmericanQueries == {"getValueOption", "getAnalysisOption"}
KnockOutQueries == {"getValuesOptionBackward", "getInitialDiscountedValueOption"}

\* the queries that return one matrix, and those that return a tuple of them
GridQueries ==
    {"getValuesPortfolioBackward", "getDiscountedValuesPortfolioBackward",
     "getValuesOptionBackward"}
TupleQueries == {"getStrategy", "getAnalysisOption"}

\* what the method of the call c returns on the lattice self
valuation(self, c) ==
    CASE c.op = "getValuesPortfolioBackward" ->
             getValuesPortfolioBackward(self, c.payoff, c.maturity)
      [] c.op = "getDiscountedValuesPortfolioBackward" ->
             getDiscountedValuesPortfolioBackward(self, c.payoff, c.maturity)
      [] c.op = "getInitialValuePortfolio" ->
             getInitialValuePortfolio(self, c.payoff, c.maturity)
      [] c.op = "getStrategy" -> getStrategy(self, c.payoff, c.maturity)
      [] c.op = "getValueOption" -> getValueOption(self, c.payoff, c.maturity)
      [] c.op = "getAnalysisOption" -> getAnalysisOption(self, c.payoff, c.maturity)
      [] c.op = "getValuesOptionBackward" ->
             getValuesOptionBackward(self, c.payoff, c.maturity,
                                     c.lowerBarrier, c.upperBarrier)
      [] c.op = "getInitialDiscountedValueOption" ->
             getInitialDiscountedValueOption(self, c.payoff, c.maturity,
                                             c.lowerBarrier, c.upperBarrier)

SessionInit ==
    /\ \E p \in ConcurrentParameters :
          underlyingModel = BinomialModelSmart(p[1], p[2], p[3], p[4], p[5])
    /\ call = Idle
    /\ ret = nan
    /\ raised = "none"
    /\ randomState = noObject
    /\ monteCarloModels = noObject
    /\ cliquetOption = noObject

QueryEuropean ==
    /\ call = Idle
    /\ \E op \in EuropeanQueries, payoff \in ConcurrentPayoffs, maturity \in TimeIndices :
           LET c == [op |-> op, payoff |-> payoff, maturity |-> maturity]
           IN  Call(c, valuation(underlyingModel, c))

QueryAmerican ==
    /\ call = Idle
    /\ \E op \in AmericanQueries, payoff \in ConcurrentPayoffs, maturity \in TimeIndices :
           LET c == [op |-> op, payoff |-> payoff, maturity |-> maturity]
           IN  Call(c, valuation(underlyingModel, c))

QueryKnockOut ==
    /\ call = Idle
    /\ \E op \in KnockOutQueries, payoff \in ConcurrentPayoffs, maturity \in TimeIndices,
          barriers \in ConcurrentBarriers :
           LET c == [op |-> op, payoff |-> payoff, maturity |-> maturity,
                     lowerBarrier |-> barriers[1], upperBarrier |-> barriers[2]]
           IN  Call(c, valuation(underlyingModel, c))

\* whether the array that the method returns is a view of the table of the
\* lattice: the engines return the arrays that they allocate with np.full,
\* getRealizationsAtGivenTime a slice of self.realizations
sharesMemoryWithLattice(op) == op = "getRealizationsAtGivenTime"

\* mutant: every returned array is a view of the table of the lattice
latticeWrittenThrough(self, c, k, j, x) ==
    [self EXCEPT !.realizations[k][j] = x]

\* the lattice after the client has written x to the entry [k][j] of an array
\* that the call c has returned
latticeAfterWrite(self, c, k, j, x) ==
    IF sharesMemoryWithLattice(c.op) THEN [self EXCEPT !.realizations[k][j] = x] ELSE self

\* the value that the client writes
WrittenValues == {Rat(-1, 1)}

\* the client writes, once, to an entry of a matrix that it holds
ModifyReturnedGrid ==
    /\ call # Idle
    /\ call.op \in GridQueries \cup TupleQueries
    /\ ret = valuation(underlyingModel, call)
    /\ \E x \in WrittenValues,
          i \in (IF call.op \in TupleQueries THEN DOMAIN ret ELSE {0}) :
           LET matrix == IF call.op \in TupleQueries THEN ret[i] ELSE ret
           IN  \E k \in DOMAIN matrix : \E j \in DOMAIN matrix[k] :
                   /\ ret' = IF call.op \in TupleQueries
                             THEN [ret EXCEPT ![i][k][j] = x]
                             ELSE [ret EXCEPT ![k][j] = x]
                   /\ underlyingModel' = latticeAfterWrite(underlyingModel, call, k, j, x)
    /\ UNCHANGED <<call, raised, otherObjects>>

SessionNext ==
    \/ QueryEuropean
    \/ QueryAmerican
    \/ QueryKnockOut
    \/ ModifyReturnedGrid
    \/ Return

SessionSpec == SessionInit /\ [][SessionNext]_vars

(***************************************************************************)
(* Properties                                                              *)
(***************************************************************************)
\* the float held by a result that numpy returns as a one-element array at
\* maturity 0 and as a float otherwise
item(x, maturity) == IF maturity = 0 THEN x[0] ELSE x

\* initialValue * u^(k-j) * d^j
latticeValue(self, k, j) ==
    mul(self.initialValue, mul(pow(self.increaseIfUp, k - j), pow(self.decreaseIfDown, j)))

\* C1: the discounted average of the lattice at every time index is the
\* initial value.
MartingaleProperty ==
    call.op = "getDiscountedAverageAtGivenTime" => ret = underlyingModel.initialValue

MartingaleWitness ==
    /\ call.op = "getDiscountedAverageAtGivenTime"
    /\ call.timeIndex >= 2
    /\ underlyingModel.interestRate # Zero
    /\ underlyingModel.riskNeutralProbabilityUp # Rat(1, 2)

\* C2: the probabilities of the realizations at every time index sum to 1.
ProbabilityNormalization ==
    call.op = "getProbabilitiesOfRealizationsAtGivenTime" =>
        IF call.timeIndex = 0 THEN ret = One ELSE sum(ret) = One

ProbabilityNormalizationWitness ==
    /\ call.op = "getProbabilitiesOfRealizationsAtGivenTime"
    /\ call.timeIndex >= 2
    /\ underlyingModel.riskNeutralProbabilityUp # Rat(1, 2)

\* C3: the probability-weighted discounted payoff equals entry [0][0] of the
\* grid of the discounted backward recursion, whichever of the two is called.
EuropeanPriceAgreement ==
    /\ call.op = "evaluateDiscountedPayoff" =>
           item(ret, call.maturity) =
               getDiscountedValuesPortfolioBackward(underlyingModel, call.payoff,
                                                    call.maturity)[0][0]
    /\ call.op = "getDiscountedValuesPortfolioBackward" =>
           ret[0][0] = item(evaluateDiscountedPayoff(underlyingModel, call.payoff,
                                                     call.maturity), call.maturity)

EuropeanPriceAgreementWitness ==
    /\ call.op = "evaluateDiscountedPayoff"
    /\ call.maturity >= 2
    /\ underlyingModel.interestRate # Zero
    /\ ret # Zero

\* C4: the strategy replicates the discounted value grid at both successors
\* of every node: riskyAmount(k,j) * lattice(k+1,s) + freeAmount(k,j) * (1+rho)
\* = grid(k+1,s) for s = j and s = j + 1.
ReplicationExactness ==
    call.op = "getStrategy" =>
        LET amountInRiskyAsset == ret[0]
            amountInRiskFreeAsset == ret[1]
            grid == getDiscountedValuesPortfolioBackward(underlyingModel, call.payoff,
                                                         call.maturity)
        IN  \A k \in 0..(call.maturity - 1) : \A j \in 0..k : \A s \in {j, j + 1} :
                add(mul(amountInRiskyAsset[k][j], underlyingModel.realizations[k + 1][s]),
                    mul(amountInRiskFreeAsset[k][j], add(One, underlyingModel.interestRate)))
                = grid[k + 1][s]

\* C5: the American value is at least the discounted European value of the
\* same payoff and maturity.
AmericanAtLeastEuropean ==
    call.op = "getValueOption" =>
        ge(ret, item(evaluateDiscountedPayoff(underlyingModel, call.payoff, call.maturity),
                     call.maturity))

\* the put of americanOptionTest, worth strictly more than the European put
AmericanAtLeastEuropeanWitness ==
    /\ call.op = "getValueOption"
    /\ underlyingModel.initialValue = Rat(20, 1)
    /\ call.payoff = [kind |-> "put", strike |-> Rat(20, 1)]
    /\ call.maturity = 3
    /\ gt(ret, evaluateDiscountedPayoff(underlyingModel, call.payoff, call.maturity))

isConvex(payoff) == payoff.kind \in {"call", "put"}

\* C6 as stated: for a convex payoff and rho >= 0 the American value equals the
\* discounted European value, for calls and for puts.
AmericanEqualsEuropeanIfConvex ==
    (/\ call.op = "getValueOption"
     /\ isConvex(call.payoff)
     /\ ge(underlyingModel.interestRate, Zero)) =>
        ret = item(evaluateDiscountedPayoff(underlyingModel, call.payoff, call.maturity),
                   call.maturity)

\* C6, amended: the American value equals the discounted European value for a
\* convex payoff when rho = 0, and for a call max(x - K, 0) with K >= 0 when
\* rho >= 0.
AmericanEqualsEuropeanCallOrNoInterest ==
    (/\ call.op = "getValueOption"
     /\ \/ isConvex(call.payoff) /\ underlyingModel.interestRate = Zero
        \/ /\ call.payoff.kind = "call"
           /\ ge(call.payoff.strike, Zero)
           /\ ge(underlyingModel.interestRate, Zero)) =>
        ret = item(evaluateDiscountedPayoff(underlyingModel, call.payoff, call.maturity),
                   call.maturity)

AmericanEqualsEuropeanWitness ==
    /\ call.op = "getValueOption"
    /\ call.payoff.kind = "call"
    /\ gt(call.payoff.strike, Zero)
    /\ gt(underlyingModel.interestRate, Zero)
    /\ call.maturity >= 2
    /\ gt(ret, payoffFunction(call.payoff, underlyingModel.initialValue))

\* the lattice values reachable up to maturity
reachableUpTo(self, maturity) ==
    {self.realizations[k][j] : k \in 0..maturity, j \in 0..maturity} \ {nan}

strictlyInsideRange(barrier, self, maturity) ==
    /\ \E x \in reachableUpTo(self, maturity) : lt(x, barrier)
    /\ \E x \in reachableUpTo(self, maturity) : lt(barrier, x)

\* C7 as stated: with a lower and an upper barrier strictly inside the reachable
\* range, the discounted knock-out value is at most the discounted European
\* value, for a payoff of any sign.
KnockOutAtMostVanilla ==
    (/\ call.op = "getInitialDiscountedValueOption"
     /\ lt(call.lowerBarrier, call.upperBarrier)
     /\ strictlyInsideRange(call.lowerBarrier, underlyingModel, call.maturity)
     /\ strictlyInsideRange(call.upperBarrier, underlyingModel, call.maturity)) =>
        le(ret, item(evaluateDiscountedPayoff(underlyingModel, call.payoff, call.maturity),
                     call.maturity))

isNonNegative(payoff) == payoff.kind \in {"call", "put"}

\* C7, amended: with both barriers strictly inside the reachable range, the
\* discounted knock-out value is at most the discounted European value, for a
\* payoff function that is nowhere negative.
KnockOutAtMostVanillaNonNegative ==
    (/\ call.op = "getInitialDiscountedValueOption"
     /\ isNonNegative(call.payoff)
     /\ strictlyInsideRange(call.lowerBarrier, underlyingModel, call.maturity)
     /\ strictlyInsideRange(call.upperBarrier, underlyingModel, call.maturity)) =>
        le(ret, item(evaluateDiscountedPayoff(underlyingModel, call.payoff, call.maturity),
                     call.maturity))

KnockOutAtMostVanillaWitness ==
    /\ call.op = "getInitialDiscountedValueOption"
    /\ isNonNegative(call.payoff)
    /\ strictlyInsideRange(call.lowerBarrier, underlyingModel, call.maturity)
    /\ strictlyInsideRange(call.upperBarrier, underlyingModel, call.maturity)
    /\ gt(ret, Zero)
    /\ lt(ret, item(evaluateDiscountedPayoff(underlyingModel, call.payoff, call.maturity),
                    call.maturity))

\* C8: with the default barriers -inf and +inf the knock-out grid equals the
\* European grid at every node, and the discounted initial knock-out value
\* equals the discounted European value.
DefaultBarriersReduceToEuropean ==
    /\ (/\ call.op = "getValuesOptionBackward"
        /\ call.lowerBarrier = minusInf
        /\ call.upperBarrier = inf) =>
           LET grid == getValuesPortfolioBackward(underlyingModel, call.payoff, call.maturity)
           IN  \A k \in 0..call.maturity : \A j \in 0..k : ret[k][j] = grid[k][j]
    /\ (/\ call.op = "getInitialDiscountedValueOption"
        /\ call.lowerBarrier = minusInf
        /\ call.upperBarrier = inf) =>
           ret = item(evaluateDiscountedPayoff(underlyingModel, call.payoff, call.maturity),
                      call.maturity)

DefaultBarriersWitness ==
    /\ call.op = "getValuesOptionBackward"
    /\ call.lowerBarrier = minusInf
    /\ call.upperBarrier = inf
    /\ call.maturity >= 2
    /\ ret[0][0] # Zero
    /\ ret[1][0] # ret[1][1]

\* C9: every entry (k,j) of the lattice is initialValue * u^(k-j) * d^j, and
\* getRealizationsAtGivenTime(k) returns these k + 1 entries from all ups to
\* all downs.
LatticeClosedForm ==
    /\ \A k \in TimeIndices : \A j \in 0..k :
           underlyingModel.realizations[k][j] = latticeValue(underlyingModel, k, j)
    /\ (call.op = "getRealizationsAtGivenTime" /\ call.timeIndex \in TimeIndices) =>
           ret = [j \in 0..call.timeIndex |->
                     latticeValue(underlyingModel, call.timeIndex, j)]

LatticeClosedFormWitness ==
    /\ call.op = "getRealizationsAtGivenTime"
    /\ call.timeIndex >= 2
    /\ len(ret) = call.timeIndex + 1

\* C10 as stated: before maturity the exercise indicator is set exactly when
\* the exercise value is at least the continuation value.
ExerciseOnTie ==
    call.op = "getAnalysisOption" =>
        LET valuesExercise == ret[1]
            valuesIfWait == ret[2]
            exercise == ret[3]
        IN  \A k \in 0..(call.maturity - 1) : \A j \in 0..k :
                exercise[k][j] = One <=> ge(valuesExercise[k][j], valuesIfWait[k][j])

\* C10, amended: before maturity the exercise indicator is set exactly when the
\* exercise value is strictly greater than the continuation value; when the
\* two are equal it records waiting.
ExerciseOnlyIfStrictlyBetter ==
    call.op = "getAnalysisOption" =>
        LET valuesExercise == ret[1]
            valuesIfWait == ret[2]
            exercise == ret[3]
        IN  \A k \in 0..(call.maturity - 1) : \A j \in 0..k :
                /\ exercise[k][j] \in {Zero, One}
                /\ exercise[k][j] = One <=> gt(valuesExercise[k][j], valuesIfWait[k][j])

\* a node where exercising and waiting are worth the same, non-zero, amount
ExerciseTieWitness ==
    /\ call.op = "getAnalysisOption"
    /\ \E k \in 0..(call.maturity - 1) : \E j \in 0..k :
           /\ ret[1][k][j] = ret[2][k][j]
           /\ ret[1][k][j] # Zero
           /\ ret[3][k][j] = Zero
    /\ \E k \in 0..(call.maturity - 1) : \E j \in 0..k : ret[3][k][j] = One

\* C11: the American value of the rolling recursion equals entry [0][0] of the
\* option-value grid of the full-matrix recursion, whichever of the two is
\* called.
AmericanPriceIsGridOrigin ==
    /\ call.op = "getValueOption" =>
           ret = getAnalysisOption(underlyingModel, call.payoff, call.maturity)[0][0][0]
    /\ call.op = "getAnalysisOption" =>
           ret[0][0][0] = getValueOption(underlyingModel, call.payoff, call.maturity)

\* a put exercised early somewhere, worth more than its immediate exercise
AmericanPriceIsGridOriginWitness ==
    /\ call.op = "getAnalysisOption"
    /\ call.maturity >= 2
    /\ underlyingModel.interestRate # Zero
    /\ \E k \in 1..(call.maturity - 1) : \E j \in 0..k : ret[3][k][j] = One
    /\ gt(ret[0][0][0], ret[1][0][0])

\* C12: getInitialValuePortfolio returns the value that evaluateDiscountedPayoff
\* returns for the same payoff and maturity, whatever the interest rate.
InitialValuePortfolioContract ==
    call.op = "getInitialValuePortfolio" =>
        ret = item(evaluateDiscountedPayoff(underlyingModel, call.payoff, call.maturity),
                   call.maturity)

isProbability(q) == ge(q, Zero) /\ le(q, One)

\* C13: a construction with d >= 1 + rho, u <= 1 + rho or fewer than one time
\* ends with InvalidParameters, and every lattice object that exists has a
\* risk-neutral probability in [0, 1].
ConstructionRejectsMalformed ==
    /\ isProbability(underlyingModel.riskNeutralProbabilityUp)
    /\ call.op = "__init__" =>
           /\ (\/ ge(call.decreaseIfDown, add(One, call.interestRate))
               \/ le(call.increaseIfUp, add(One, call.interestRate))
               \/ call.numberOfTimes < 1) => raised = "InvalidParameters"
           /\ raised = "none" =>
                  isProbability(riskNeutralProbability(call.decreaseIfDown, call.increaseIfUp,
                                                       call.interestRate))

\* a construction on the boundary d = 1 + rho, rejected
ConstructionRejectsMalformedWitness ==
    /\ call.op = "__init__"
    /\ call.decreaseIfDown = add(One, call.interestRate)
    /\ lt(add(One, call.interestRate), call.increaseIfUp)
    /\ call.numberOfTimes >= 1
    /\ raised = "InvalidParameters"

\* C14: getRealizationsAtGivenTime with a time index outside the lattice, too
\* large or negative, ends with an index error and returns no values.
OutOfRangeTimeIndexRaises ==
    (call.op = "getRealizationsAtGivenTime" /\ call.timeIndex \notin TimeIndices) =>
        raised = "IndexError"

\* u^k * d^(timeIndex - k) > (1 + rho)^timeIndex
discountedValueExceedsInitial(self, timeIndex, k) ==
    gt(mul(pow(self.increaseIfUp, k), pow(self.decreaseIfDown, timeIndex - k)),
       pow(add(One, self.interestRate), timeIndex))

\* C18: at every time index t >= 1, findThreshold returns the smallest number k
\* of ups with u^k * d^(t-k) > (1+rho)^t, strictly.
ThresholdIsSmallestStrictGain ==
    (call.op = "findThreshold" /\ call.timeIndex >= 1) =>
        \E k \in 0..call.timeIndex :
            /\ ret = Rat(k, 1)
            /\ discountedValueExceedsInitial(underlyingModel, call.timeIndex, k)
            /\ \A i \in 0..(k - 1) :
                   ~discountedValueExceedsInitial(underlyingModel, call.timeIndex, i)

\* C19: at every time index t, getPercentageOfGainAtGivenTime returns 100
\* times the sum of the probabilities of the nodes j of slice t whose
\* discounted value (1+rho)^(-t) * S(t,j) is strictly greater than S(0).
GainProbabilityOverStrictGains ==
    call.op = "getPercentageOfGainAtGivenTime" =>
        LET t == call.timeIndex
            realizations == getRealizationsAtGivenTime(underlyingModel, t)
            probabilities ==
                IF t = 0 THEN [j \in 0..0 |-> One]
                ELSE getProbabilitiesOfRealizationsAtGivenTime(underlyingModel, t)
            gains == [j \in 0..t |->
                        IF gt(mul(pow(add(One, underlyingModel.interestRate), -t),
                                  realizations[j]),
                              underlyingModel.initialValue)
                        THEN probabilities[j] ELSE Zero]
        IN  ret = mul(Rat(100, 1), sum(gains))

\* C20: at every time index t, getProbabilitiesOfRealizationsAtGivenTime
\* returns a sequence with one probability per node of slice t, of the length
\* t + 1 of getRealizationsAtGivenTime(t) and in its order (entry j belongs to
\* the node with j downs); at t = 0 it is the one-element sequence holding 1.
ProbabilitySliceShape ==
    call.op = "getProbabilitiesOfRealizationsAtGivenTime" =>
        LET t == call.timeIndex
            q == underlyingModel.riskNeutralProbabilityUp
        IN  /\ DOMAIN ret = DOMAIN getRealizationsAtGivenTime(underlyingModel, t)
            /\ \A j \in 0..t :
                   ret[j] = mul(Rat(binom(t, j), 1), mul(pow(q, t - j), pow(sub(One, q), j)))

\* C16: no call of the query surface of the lattice or of a valuation engine
\* built on it changes an entry of the lattice table or a lattice parameter.
LatticeImmutable == [][underlyingModel' = underlyingModel]_vars

\* a knock-out grid has been computed and the lattice is the one that its
\* parameters build
LatticeImmutableWitness ==
    /\ call.op = "getValuesOptionBackward"
    /\ call.maturity >= 2
    /\ ret[0][0] # Zero
    /\ underlyingModel =
           BinomialModelSmart(underlyingModel.initialValue, underlyingModel.decreaseIfDown,
                              underlyingModel.increaseIfUp, underlyingModel.numberOfTimes,
                              underlyingModel.interestRate)

\* what the query of a frame returns when it runs alone
resultAlone(self, frame) ==
    CASE frame.op = "getValueOption" -> getValueOption(self, frame.payoff, frame.maturity)
      [] frame.op = "getDiscountedValuesPortfolioBackward" ->
             getDiscountedValuesPortfolioBackward(self, frame.payoff, frame.maturity)
      [] frame.op = "getValuesOptionBackward" ->
             getValuesOptionBackward(self, frame.payoff, frame.maturity,
                                     frame.lowerBarrier, frame.upperBarrier)

\* C17: under every interleaving of the steps of concurrent queries on the
\* shared lattice, every query returns what it returns when it runs alone, and
\* the lattice is never changed.
ConcurrentQueriesAsAlone ==
    /\ [](\A thread \in Threads :
             call[thread].pc = "done" =>
                 ret[thread] = resultAlone(underlyingModel, call[thread]))
    /\ [][underlyingModel' = underlyingModel]_vars

\* one thread holds the result of an American valuation while the other is
\* in the middle of the loop of a knock-out valuation
ConcurrentQueriesWitness ==
    /\ call[1].pc = "done"
    /\ call[1].op = "getValueOption"
    /\ call[1].maturity >= 2
    /\ ret[1] # Zero
    /\ call[2].pc = "loop"
    /\ call[2].op = "getValuesOptionBackward"
    /\ call[2].timeIndexBackward >= 0
    /\ call[2].timeIndexBackward < call[2].maturity - 1


\* the node (k, j) is knocked out: its lattice value is on or beyond a barrier
outsideBarriers(self, k, j, lowerBarrier, upperBarrier) ==
    \/ le(latticeValue(self, k, j), lowerBarrier)
    \/ ge(latticeValue(self, k, j), upperBarrier)

\* C23: in the grid of getValuesOptionBackward every node whose lattice value
\* is <= the lower or >= the upper barrier holds exactly 0; every other node
\* holds the payoff of its lattice value at maturity and
\* q * grid(k+1,j) + (1-q) * grid(k+1,j+1) before maturity.
KnockOutNodeRule ==
    call.op = "getValuesOptionBackward" =>
        LET q == underlyingModel.riskNeutralProbabilityUp
        IN  \A k \in 0..call.maturity : \A j \in 0..k :
                ret[k][j] =
                    IF outsideBarriers(underlyingModel, k, j,
                                       call.lowerBarrier, call.upperBarrier)
                    THEN Zero
                    ELSE IF k = call.maturity
                    THEN payoffFunction(call.payoff, latticeValue(underlyingModel, k, j))
                    ELSE add(mul(q, ret[k + 1][j]), mul(sub(One, q), ret[k + 1][j + 1]))

\* a node before maturity lies exactly on a barrier, the expectation of its
\* successors is not 0, and its value is 0
KnockOutNodeRuleWitness ==
    /\ call.op = "getValuesOptionBackward"
    /\ \E k \in 0..(call.maturity - 1) : \E j \in 0..k :
           /\ \/ latticeValue(underlyingModel, k, j) = call.lowerBarrier
              \/ latticeValue(underlyingModel, k, j) = call.upperBarrier
           /\ lt(call.lowerBarrier, call.upperBarrier)
           /\ add(mul(underlyingModel.riskNeutralProbabilityUp, ret[k + 1][j]),
                  mul(sub(One, underlyingModel.riskNeutralProbabilityUp),
                      ret[k + 1][j + 1])) # Zero
           /\ ret[k][j] = Zero
           /\ ret[0][0] # Zero

\* C24: in the four grids of getAnalysisOption, at every node (k,j) before
\* maturity the exercise value is the payoff of the lattice value, the
\* continuation value is (q*option(k+1,j) + (1-q)*option(k+1,j+1))/(1+rho) and
\* the option value is the larger of the two; at maturity the three value
\* grids hold the payoff and the exercise indicator is set at every node.
AmericanGridConsistency ==
    call.op = "getAnalysisOption" =>
        LET q == underlyingModel.riskNeutralProbabilityUp
            rho == underlyingModel.interestRate
            optionValue == ret[0]
            exerciseValue == ret[1]
            continuationValue == ret[2]
            exerciseIndicator == ret[3]
            m == call.maturity
        IN  /\ \A k \in 0..(m - 1) : \A j \in 0..k :
                   /\ exerciseValue[k][j] =
                          payoffFunction(call.payoff, latticeValue(underlyingModel, k, j))
                   /\ continuationValue[k][j] =
                          div(add(mul(q, optionValue[k + 1][j]),
                                  mul(sub(One, q), optionValue[k + 1][j + 1])),
                              add(One, rho))
                   /\ optionValue[k][j] =
                          maximum(exerciseValue[k][j], continuationValue[k][j])
                   /\ ge(optionValue[k][j], exerciseValue[k][j])
            /\ \A j \in 0..m :
                   LET payoffAtMaturity ==
                           payoffFunction(call.payoff, latticeValue(underlyingModel, m, j))
                   IN  /\ optionValue[m][j] = payoffAtMaturity
                       /\ exerciseValue[m][j] = payoffAtMaturity
                       /\ continuationValue[m][j] = payoffAtMaturity
                       /\ exerciseIndicator[m][j] = One

\* a grid with a node where exercising is worth more than waiting and a node
\* where waiting is worth more than exercising
AmericanGridConsistencyWitness ==
    /\ call.op = "getAnalysisOption"
    /\ call.maturity >= 2
    /\ \E k \in 0..(call.maturity - 1) : \E j \in 0..k : gt(ret[1][k][j], ret[2][k][j])
    /\ \E k \in 0..(call.maturity - 1) : \E j \in 0..k : lt(ret[1][k][j], ret[2][k][j])

\* C27: every simulated path starts at initialValue and moves from each time to
\* the next by a factor u or d, so that its value at time t is one of the
\* t + 1 lattice values initialValue * u^(t-j) * d^j.
SimulatedPathsOnLattice ==
    (call.op = "__init__" /\ call.class = "BinomialModelMonteCarlo" /\ raised = "none") =>
        \A i \in NumbersOfSimulations :
            /\ ret[0][i - 1] = call.initialValue
            /\ \A t \in 1..(call.numberOfTimes - 1) :
                   /\ \/ ret[t][i - 1] = mul(ret[t - 1][i - 1], call.increaseIfUp)
                      \/ ret[t][i - 1] = mul(ret[t - 1][i - 1], call.decreaseIfDown)
                   /\ \E j \in 0..t : ret[t][i - 1] = latticeValue(call, t, j)

\* a simulated path of four times that goes up and down
SimulatedPathsWitness ==
    /\ call.op = "__init__"
    /\ call.class = "BinomialModelMonteCarlo"
    /\ raised = "none"
    /\ call.numberOfTimes = 4
    /\ ret[1][0] = mul(ret[0][0], call.increaseIfUp)
    /\ ret[2][0] = mul(ret[1][0], call.decreaseIfDown)
    /\ ret[3][0] = mul(ret[2][0], call.decreaseIfDown)
    /\ ret[3][0] # ret[1][0]

\* C29: at every time index t >= 1 of a lattice with d < 1 + rho < u the
\* threshold is at least 1 and at most t, so that getPercentageOfGainAtGivenTime
\* sums the non-empty prefix 0..t - threshold of the probabilities, which holds
\* the all-ups node and not the all-downs node.
ThresholdInsideSlice ==
    /\ (call.op = "findThreshold" /\ call.timeIndex >= 1) =>
           /\ ge(ret, One)
           /\ le(ret, Rat(call.timeIndex, 1))
    /\ (call.op = "getPercentageOfGainAtGivenTime" /\ call.timeIndex >= 1) =>
           LET t == call.timeIndex
               probabilities == getProbabilitiesOfRealizationsAtGivenTime(underlyingModel, t)
               last == t - findThreshold(underlyingModel, t)[1]
           IN  /\ last \in 0..(t - 1)
               /\ ret = mul(Rat(100, 1), sumUpTo(probabilities, last))

\* a threshold strictly inside the range on a lattice whose first threshold is 1
ThresholdInsideSliceWitness ==
    /\ call.op = "findThreshold"
    /\ call.timeIndex = 3
    /\ ret = Rat(2, 1)
    /\ findThreshold(underlyingModel, 1) = One


\* step t in 1..maturity of the path with number path is a down move
isDown(path, t) == (path \div (2 ^ (t - 1))) % 2 = 1

\* the number of down moves among the first t steps of the path
RECURSIVE downsUpTo(_, _)
downsUpTo(path, t) ==
    IF t = 0 THEN 0 ELSE downsUpTo(path, t - 1) + (IF isDown(path, t) THEN 1 ELSE 0)

\* risk-neutral probability of the path times the payoff of its terminal value,
\* 0 if the path is on or beyond a barrier at some time 0..maturity
pathValue(self, payoff, maturity, lowerBarrier, upperBarrier, path) ==
    LET q == self.riskNeutralProbabilityUp
        downs == downsUpTo(path, maturity)
    IN  IF \A t \in 0..maturity :
               /\ gt(latticeValue(self, t, downsUpTo(path, t)), lowerBarrier)
               /\ lt(latticeValue(self, t, downsUpTo(path, t)), upperBarrier)
        THEN mul(mul(pow(q, maturity - downs), pow(sub(One, q), downs)),
                 payoffFunction(payoff, latticeValue(self, maturity, downs)))
        ELSE Zero

\* the sum of pathValue over the paths 0..path
RECURSIVE firstPassageUpTo(_, _, _, _, _, _)
firstPassageUpTo(self, payoff, maturity, lowerBarrier, upperBarrier, path) ==
    IF path < 0 THEN Zero
    ELSE add(firstPassageUpTo(self, payoff, maturity, lowerBarrier, upperBarrier, path - 1),
             pathValue(self, payoff, maturity, lowerBarrier, upperBarrier, path))

DiscountedRowsAgree ==
    LET grid == getDiscountedValuesPortfolioBackward(underlyingModel, call.payoff,
                                                     call.maturity)
        u == underlyingModel.increaseIfUp
        d == underlyingModel.decreaseIfDown
        rho == underlyingModel.interestRate
    IN  /\ call.op = "getValuesDiscountedPortfolioBackwardAtGivenTime" =>
               /\ DOMAIN ret = 0..call.currentTime
               /\ \A j \in 0..call.currentTime : ret[j] = grid[call.currentTime][j]
        /\ call.op = "getStrategy" =>
               \A k \in 0..(call.maturity - 1) : \A j \in 0..k :
                   /\ ret[0][k][j] =
                          div(sub(grid[k + 1][j], grid[k + 1][j + 1]),
                              sub(latticeValue(underlyingModel, k + 1, j),
                                  latticeValue(underlyingModel, k + 1, j + 1)))
                   /\ ret[1][k][j] =
                          div(sub(mul(u, grid[k + 1][j + 1]), mul(d, grid[k + 1][j])),
                              mul(sub(u, d), pow(add(One, rho), k)))

\* a row strictly between time 0 and maturity, with interest, that is not 0
DiscountedRowsAgreeWitness ==
    /\ call.op = "getValuesDiscountedPortfolioBackwardAtGivenTime"
    /\ call.currentTime >= 1
    /\ call.maturity >= call.currentTime + 2
    /\ underlyingModel.interestRate # Zero
    /\ ret[0] # Zero
    /\ ret[0] # ret[1]


\* C30: every call of getPayoffs returns, for each row of the matrix of
\* returns handed to that call, the sum of the returns minus 1 truncated to
\* [localFloor, localCap], truncated to [globalFloor, globalCap], whatever the
\* calls made before on the same object.
PayoffsFollowArgument ==
    call.op = "getPayoffs" =>
        /\ DOMAIN ret = DOMAIN call.returnsForAllSimulations
        /\ \A i \in DOMAIN call.returnsForAllSimulations :
               LET row == call.returnsForAllSimulations[i]
                   truncated ==
                       [k \in DOMAIN row |->
                           minimum(maximum(sub(row[k], One), cliquetOption.localFloor),
                                   cliquetOption.localCap)]
               IN  ret[i] = minimum(maximum(sum(truncated), call.globalFloor),
                                    call.globalCap)


\* the parameters of the constructor call that has built the object
constructorArguments(self) ==
    <<self.initialValue, self.decreaseIfDown, self.increaseIfUp, self.numberOfTimes,
      self.numberOfSimulations, self.interestRate, self.mySeed>>

\* C28: two BinomialModelMonteCarlo objects built with the same parameters and
\* the same seed hold the same realizations, whatever was built and drawn in
\* between.
SeededSimulationReproducible ==
    \A a \in Slots, b \in Slots :
        (/\ monteCarloModels[a] # noObject
         /\ monteCarloModels[b] # noObject
         /\ constructorArguments(monteCarloModels[a])
                = constructorArguments(monteCarloModels[b])) =>
            monteCarloModels[a].realizations = monteCarloModels[b].realizations

\* two objects of the same parameters and seed, built before and after a draw
\* elsewhere, whose path goes up and down, while the other seed yields
\* another path
SeededSimulationWitness ==
    /\ monteCarloModels[1] # noObject
    /\ monteCarloModels[2] # noObject
    /\ constructorArguments(monteCarloModels[1]) = constructorArguments(monteCarloModels[2])
    /\ randomState.drawn >= 1
    /\ monteCarloModels[1].numberOfTimes = 3
    /\ monteCarloModels[1].realizations[2][0] = monteCarloModels[1].initialValue
    /\ randomState.streamOfSeed["1897"] # randomState.streamOfSeed["2023"]


\* the lattice that the constructor builds from the parameters of self
latticeOfParameters(self) ==
    BinomialModelSmart(self.initialValue, self.decreaseIfDown, self.increaseIfUp,
                       self.numberOfTimes, self.interestRate)

\* C26: every valuation query returns what its method yields on the lattice
\* built from the parameters, for its own arguments, whatever queries were made
\* and whatever was written to returned grids before; and no step, a write to
\* a returned grid included, changes the lattice.
QueriesFreshAndHistoryIndependent ==
    [][/\ underlyingModel' = underlyingModel
       /\ (call = Idle /\ call' # Idle) =>
              ret' = valuation(latticeOfParameters(underlyingModel'), call')]_vars

\* the client holds an analysis whose option values it has overwritten at the
\* origin, and the lattice is the one built from the parameters
ModifiedGridWitness ==
    /\ call.op = "getAnalysisOption"
    /\ call.maturity >= 2
    /\ ret[0][0][0] = Rat(-1, 1)
    /\ underlyingModel = latticeOfParameters(underlyingModel)

=============================================================================
